---------------------------- MODULE Spec2Model ----------------------------
(***************************************************************************)
(* A model of the SOQL AST builder (class SOQLVisitor) and of the facade   *)
(* functions parseQuery / isQueryValid.                                    *)
(*                                                                         *)
(* Representation.                                                         *)
(*  - A JavaScript string is a sequence of chunks (TLA+ strings); "." and  *)
(*    ":" and each decimal digit are chunks of their own, so that          *)
(*    includes('.'), split('.'), template literals and Number() are        *)
(*    computed, not assumed.                                               *)
(*  - A JavaScript object is a record whose DOMAIN holds exactly the       *)
(*    attributes that were assigned; an attribute that was never assigned  *)
(*    (or was deleted) is not in the DOMAIN.                               *)
(*  - A token is [image, tokenType]; a CST context (ctx) is a record whose *)
(*    DOMAIN holds the keys the parser filled, each key an array.          *)
(*  - Token type names and the enumerated tags are TLA+ strings.           *)
(*  - literalType and dateLiteralVariable are either a scalar or an array  *)
(*    in the code; the model wraps them as [scalar |-> x] or [seq |-> s]   *)
(*    and array elements number/null as [num |-> n] / [null |-> TRUE].     *)
(***************************************************************************)
EXTENDS Integers, Sequences, FiniteSets, TLC

VARIABLES soql, pc, query, valid, given, config, listenerRaises, visitor, calls, last

\* given, config, listenerRaises, visitor, calls and last belong to the
\* sequences of calls (SpecCalls below)
callVars == <<given, config, listenerRaises, visitor, calls, last>>

vars == <<soql, pc, query, valid, given, config, listenerRaises, visitor, calls, last>>

-----------------------------------------------------------------------------
(* Bounds of the model                                                     *)

MaxSegs == 3

MaxArr == 2

MaxConds == 2

MaxParen == 2
\* the largest number of ORDER BY criteria
MaxOrder == 2
\* the largest number of calls in a sequence of calls
MaxCalls == 2
\* the largest number of conditions of a chain with mixed connectives
MaxChain == 3

-----------------------------------------------------------------------------
(* JavaScript helpers                                                      *)

Empty == [k \in {} |-> TRUE]

Has(obj, key) == key \in DOMAIN obj

Opt(cond, rec) == IF cond THEN rec ELSE Empty

Del(obj, key) == [k \in DOMAIN obj \ {key} |-> obj[k]]

Last(s) == s[Len(s)]

Front(s) == SubSeq(s, 1, Len(s) - 1)

Scalar(x) == [scalar |-> x]

Arr(s) == [seq |-> s]

JsNum(n) == [num |-> n]

JsNull == [null |-> TRUE]

\* String.prototype.includes for a one-character needle
includes(image, ch) == \E i \in DOMAIN image : image[i] = ch

RECURSIVE splitFrom(_, _, _, _)
splitFrom(image, ch, i, cur) ==
  IF i > Len(image) THEN <<cur>>
  ELSE IF image[i] = ch THEN <<cur>> \o splitFrom(image, ch, i + 1, <<>>)
  ELSE splitFrom(image, ch, i + 1, Append(cur, image[i]))

\* String.prototype.split for a one-character separator
split(image, ch) == splitFrom(image, ch, 1, <<>>)

DigitChars == <<"0", "1", "2", "3", "4", "5", "6", "7", "8", "9">>

DigitVal(c) == (CHOOSE d \in DOMAIN DigitChars : DigitChars[d] = c) - 1

RECURSIVE NumberOf(_)
\* Number(image) for an image made of decimal digits
NumberOf(image) ==
  IF Len(image) = 0 THEN 0
  ELSE 10 * NumberOf(Front(image)) + DigitVal(Last(image))

\* isToken: a token has an image, a CST node has not
isToken(item) == Has(item, "image")

\* isSubqueryFromFlag(output, isSubquery): a type guard returning its flag
isSubqueryFromFlag(output, isSubquery) == isSubquery

-----------------------------------------------------------------------------
(* Literal tables                                                          *)

BOOLEANS == {"TRUE", "FALSE"}

DATE_LITERALS ==
  {"YESTERDAY", "TODAY", "TOMORROW", "LAST_WEEK", "THIS_WEEK", "NEXT_WEEK",
   "LAST_MONTH", "THIS_MONTH", "NEXT_MONTH", "LAST_90_DAYS", "NEXT_90_DAYS",
   "THIS_QUARTER", "LAST_QUARTER", "NEXT_QUARTER", "THIS_YEAR", "LAST_YEAR",
   "NEXT_YEAR", "THIS_FISCAL_QUARTER", "LAST_FISCAL_QUARTER",
   "NEXT_FISCAL_QUARTER", "THIS_FISCAL_YEAR", "LAST_FISCAL_YEAR",
   "NEXT_FISCAL_YEAR"}

DATE_N_LITERALS ==
  {"NEXT_N_DAYS", "LAST_N_DAYS", "N_DAYS_AGO", "NEXT_N_WEEKS", "LAST_N_WEEKS",
   "N_WEEKS_AGO", "NEXT_N_MONTHS", "LAST_N_MONTHS", "N_MONTHS_AGO",
   "NEXT_N_QUARTERS", "LAST_N_QUARTERS", "N_QUARTERS_AGO", "NEXT_N_YEARS",
   "LAST_N_YEARS", "N_YEARS_AGO", "NEXT_N_FISCAL_QUARTERS",
   "LAST_N_FISCAL_QUARTERS", "N_FISCAL_QUARTERS_AGO", "NEXT_N_FISCAL_YEARS",
   "LAST_N_FISCAL_YEARS", "N_FISCAL_YEARS_AGO"}

LiteralTypes ==
  {"STRING", "INTEGER", "DECIMAL", "INTEGER_WITH_CURRENCY_PREFIX",
   "DECIMAL_WITH_CURRENCY_PREFIX", "BOOLEAN", "DATE", "DATETIME", "NULL",
   "DATE_LITERAL", "DATE_N_LITERAL", "APEX_BIND_VARIABLE"}

\* $_getLiteralTypeFromTokenType returning null, not 'NULL', for a NULL token
getLiteralTypeFromTokenType_NullTag(tokenTypeName) ==
  IF tokenTypeName = "REAL_NUMBER" THEN "DECIMAL"
  ELSE IF tokenTypeName = "CURRENCY_PREFIXED_DECIMAL" THEN "DECIMAL_WITH_CURRENCY_PREFIX"
  ELSE IF tokenTypeName = "CURRENCY_PREFIXED_INTEGER" THEN "INTEGER_WITH_CURRENCY_PREFIX"
  ELSE IF tokenTypeName = "SIGNED_DECIMAL" THEN "DECIMAL"
  ELSE IF tokenTypeName = "UNSIGNED_DECIMAL" THEN "DECIMAL"
  ELSE IF tokenTypeName = "UNSIGNED_INTEGER" THEN "INTEGER"
  ELSE IF tokenTypeName = "SIGNED_INTEGER" THEN "INTEGER"
  ELSE IF tokenTypeName = "DATETIME" THEN "DATETIME"
  ELSE IF tokenTypeName = "DATE" THEN "DATE"
  ELSE IF tokenTypeName = "NULL" THEN "null"
  ELSE IF tokenTypeName = "StringIdentifier" THEN "STRING"
  ELSE IF tokenTypeName = "Identifier" THEN "STRING"
  ELSE IF tokenTypeName \in BOOLEANS THEN "BOOLEAN"
  ELSE IF tokenTypeName \in DATE_LITERALS THEN "DATE_LITERAL"
  ELSE IF tokenTypeName \in DATE_N_LITERALS THEN "DATE_N_LITERAL"
  ELSE "STRING"

getLiteralTypeFromTokenType(tokenTypeName) ==
  IF tokenTypeName = "REAL_NUMBER" THEN "DECIMAL"
  ELSE IF tokenTypeName = "CURRENCY_PREFIXED_DECIMAL" THEN "DECIMAL_WITH_CURRENCY_PREFIX"
  ELSE IF tokenTypeName = "CURRENCY_PREFIXED_INTEGER" THEN "INTEGER_WITH_CURRENCY_PREFIX"
  ELSE IF tokenTypeName = "SIGNED_DECIMAL" THEN "DECIMAL"
  ELSE IF tokenTypeName = "UNSIGNED_DECIMAL" THEN "DECIMAL"
  ELSE IF tokenTypeName = "UNSIGNED_INTEGER" THEN "INTEGER"
  ELSE IF tokenTypeName = "SIGNED_INTEGER" THEN "INTEGER"
  ELSE IF tokenTypeName = "DATETIME" THEN "DATETIME"
  ELSE IF tokenTypeName = "DATE" THEN "DATE"
  ELSE IF tokenTypeName = "NULL" THEN "NULL"
  ELSE IF tokenTypeName = "StringIdentifier" THEN "STRING"
  ELSE IF tokenTypeName = "Identifier" THEN "STRING"
  ELSE IF tokenTypeName \in BOOLEANS THEN "BOOLEAN"
  ELSE IF tokenTypeName \in DATE_LITERALS THEN "DATE_LITERAL"
  ELSE IF tokenTypeName \in DATE_N_LITERALS THEN "DATE_N_LITERAL"
  ELSE "STRING"

-----------------------------------------------------------------------------
(* SOQLVisitor                                                             *)

RECURSIVE selectStatement(_, _)
RECURSIVE visitFunction(_, _)

\* selectClause / selectClauseIdentifier: a bare identifier is a Field, a
\* dotted one a FieldRelationship
projectField(field) ==
  IF ~includes(field, ".")
  THEN [type |-> "Field", field |-> field]
  ELSE LET splitFields == split(field, ".")
       IN [type |-> "FieldRelationship",
           field |-> splitFields[Len(splitFields)],
           relationships |-> SubSeq(splitFields, 1, Len(splitFields) - 1),
           rawValue |-> field]

selectClauseIdentifier(ctx) ==
  LET output == projectField(ctx.field[1].image)
  IN output @@ Opt(Has(ctx, "alias") /\ ctx.alias[1].image # <<>>,
                   [alias |-> ctx.alias[1].image])

\* selectClauseSubqueryIdentifier without the isSubquery option
selectClauseSubqueryIdentifier_NoFlag(ctx) ==
  [type |-> "FieldSubquery",
   subquery |-> selectStatement(ctx.selectStatement[1].children, FALSE)]

selectClauseSubqueryIdentifier(ctx) ==
  [type |-> "FieldSubquery",
   subquery |-> selectStatement(ctx.selectStatement[1].children, TRUE)]

\* selectClauseFunctionIdentifier: the function is visited without options
selectClauseFunctionIdentifier(ctx) ==
  visitFunction(ctx.fn[1], TRUE)
  @@ Opt(Has(ctx, "alias"), [alias |-> ctx.alias[1].image])

selectClause(ctx) ==
  IF Has(ctx, "field")
  THEN [i \in DOMAIN ctx.field |->
          LET item == ctx.field[i]
          IN IF isToken(item) THEN projectField(item.image)
             ELSE IF item.name = "selectClauseSubqueryIdentifier"
                  THEN selectClauseSubqueryIdentifier(item.children)
                  ELSE IF item.name = "selectClauseFunctionIdentifier"
                  THEN selectClauseFunctionIdentifier(item.children)
                  ELSE selectClauseIdentifier(item.children)]
  ELSE <<>>

fromClause(ctx) ==
  LET sObject == ctx.Identifier[1].image
      output == IF includes(sObject, ".")
                THEN LET sObjectPrefix == split(sObject, ".")
                     IN [sObjectPrefix |-> SubSeq(sObjectPrefix, 1, Len(sObjectPrefix) - 1),
                         sObject |-> sObjectPrefix[Len(sObjectPrefix)]]
                ELSE [sObject |-> sObject]
  IN output @@ Opt(Has(ctx, "alias") /\ Len(ctx.alias) > 0,
                   [alias |-> ctx.alias[1].image])

usingScopeClause(ctx) == ctx.UsingScopeEnumeration[1].image

\* resolveAlias without the removal of the alias segment
resolveAlias_NoStrip(field, sObjectAlias) ==
  IF Has(field, "relationships") /\ Len(field.relationships) = 0
  THEN [Del(field, "relationships") EXCEPT !.type = "Field"]
  ELSE field

\* the callback of output.fields.forEach in selectStatement
resolveAlias(field, sObjectAlias) ==
  LET f1 == IF Has(field, "relationships") /\ Len(field.relationships) > 0
               /\ field.relationships[1] = sObjectAlias
            THEN [field EXCEPT !.relationships = Tail(@)]
                   @@ [objectPrefix |-> sObjectAlias]
            ELSE field
  IN IF Has(f1, "relationships") /\ Len(f1.relationships) = 0
     THEN [Del(f1, "relationships") EXCEPT !.type = "Field"]
     ELSE f1

RECURSIVE getFieldFunction(_, _, _)

\* functionExpression: a token parameter gives its image, a nested function
\* is visited with the same options
functionExpression(ctx, includeType) ==
  IF Has(ctx, "params")
  THEN [i \in DOMAIN ctx.params |->
          LET item == ctx.params[i]
          IN IF isToken(item) THEN item.image
             ELSE visitFunction(item, includeType)]
  ELSE <<>>

RECURSIVE flat(_)
\* Array.prototype.flat (depth 1)
flat(arrays) ==
  IF Len(arrays) = 0 THEN <<>> ELSE Head(arrays) \o flat(Tail(arrays))

\* typeof arg === 'string' for each parameter functionExpression returns: a
\* parameter is a string exactly when it came from a token
paramIsString(ctx) ==
  IF Has(ctx, "params")
  THEN [i \in DOMAIN ctx.params |-> isToken(ctx.params[i])]
  ELSE <<>>

RECURSIVE joinRaw(_, _)
\* args.map(arg => typeof arg === 'string' ? arg : arg.rawValue).join(', ')
joinRaw(args, isString) ==
  IF Len(args) = 0 THEN <<>>
  ELSE LET text == IF Head(isString) THEN Head(args) ELSE Head(args).rawValue
       IN IF Len(args) = 1 THEN text
          ELSE text \o <<", ">> \o joinRaw(Tail(args), Tail(isString))

\* $_getFieldFunction writing type and isAggregateFn whatever includeType is
getFieldFunction_TypeAlways(ctx, isAggregateFn, includeType) ==
  LET args == IF Has(ctx, "functionExpression")
              THEN flat([i \in DOMAIN ctx.functionExpression |->
                           functionExpression(ctx.functionExpression[1].children, includeType)])
              ELSE <<>>
      isString == IF Has(ctx, "functionExpression")
                  THEN flat([i \in DOMAIN ctx.functionExpression |->
                               paramIsString(ctx.functionExpression[1].children)])
                  ELSE <<>>
  IN [type |-> "FieldFunctionExpression"]
     @@ [functionName |-> ctx.fn[1].tokenType, parameters |-> args]
     @@ Opt(isAggregateFn, [isAggregateFn |-> isAggregateFn])
     @@ [rawValue |-> ctx.fn[1].image \o <<"(">> \o joinRaw(args, isString) \o <<")">>]

\* $_getFieldFunction: every node of ctx.functionExpression is mapped to
\* the visit of the whole array, i.e. of its first node
getFieldFunction(ctx, isAggregateFn, includeType) ==
  LET args == IF Has(ctx, "functionExpression")
              THEN flat([i \in DOMAIN ctx.functionExpression |->
                           functionExpression(ctx.functionExpression[1].children, includeType)])
              ELSE <<>>
      isString == IF Has(ctx, "functionExpression")
                  THEN flat([i \in DOMAIN ctx.functionExpression |->
                               paramIsString(ctx.functionExpression[1].children)])
                  ELSE <<>>
  IN Opt(includeType, [type |-> "FieldFunctionExpression"])
     @@ [functionName |-> ctx.fn[1].tokenType, parameters |-> args]
     @@ Opt(includeType /\ isAggregateFn, [isAggregateFn |-> isAggregateFn])
     @@ [rawValue |-> ctx.fn[1].image \o <<"(">> \o joinRaw(args, isString) \o <<")">>]

\* geolocationFunction: GEOLOCATION(latitude, longitude)
geolocationFunction(ctx, includeType) ==
  Opt(includeType, [type |-> "FieldFunctionExpression"])
  @@ [functionName |-> "GEOLOCATION",
      parameters |-> <<ctx.latitude[1].image, ctx.longitude[1].image>>,
      rawValue |-> <<"GEOLOCATION(">> \o ctx.latitude[1].image \o <<", ">>
                   \o ctx.longitude[1].image \o <<")">>]

\* locationFunction: DISTANCE(location1, location2, unit); location2 is a
\* token or a geolocationFunction node
locationFunction(ctx, includeType) ==
  LET second == IF isToken(ctx.location2[1]) THEN ctx.location2[1].image
                ELSE visitFunction(ctx.location2[1], includeType)
      secondRaw == IF isToken(ctx.location2[1]) THEN second ELSE second.rawValue
  IN Opt(includeType, [type |-> "FieldFunctionExpression"])
     @@ [functionName |-> "DISTANCE",
         parameters |-> <<ctx.location1[1].image, second, ctx.unit[1].image>>]
     @@ Opt(includeType, [isAggregateFn |-> TRUE])
     @@ [rawValue |-> <<"DISTANCE(">> \o ctx.location1[1].image \o <<", ">>
                      \o secondRaw \o <<", ">> \o ctx.unit[1].image \o <<")">>]

\* this.visit(node, { includeType }) on a function node: the method is chosen
\* by the node name (dateFunction / aggregateFunction / otherFunction /
\* cubeFunction / rollupFunction / locationFunction / geolocationFunction)
visitFunction(node, includeType) ==
  IF node.name = "locationFunction" THEN locationFunction(node.children, includeType)
  ELSE IF node.name = "geolocationFunction"
  THEN geolocationFunction(node.children, includeType)
  ELSE IF node.name \in {"cubeFunction", "rollupFunction"}
  THEN getFieldFunction(node.children, FALSE, FALSE)
  ELSE getFieldFunction(node.children, node.name = "aggregateFunction", includeType)

apexBindVariableExpression(ctx) == ctx.Identifier[1].image

booleanValue(ctx) == <<ctx.boolean[1].tokenType>>

dateNLiteral(ctx, includeType) ==
  [value |-> ctx.dateNLiteral[1].image \o <<":">> \o ctx.variable[1].image,
   variable |-> NumberOf(ctx.variable[1].image)]
  @@ Opt(includeType, [type |-> ctx.dateNLiteral[1].tokenType])

arrayExpression(ctx) ==
  [i \in DOMAIN ctx.value |->
     LET item == ctx.value[i]
     IN IF isToken(item)
        THEN [type |-> item.tokenType, value |-> item.image]
        ELSE dateNLiteral(item.children, TRUE)]

relationalOperator(ctx) == ctx.operator[1].image

\* tokenType.name.replace('_', ' '): the first underscore becomes a blank
setOperator(ctx) ==
  LET name == ctx.operator[1].tokenType
  IN IF name = "NOT_IN" THEN <<"NOT IN">> ELSE <<name>>

\* whereClauseSubqueryIdentifier with isSubquery: true
whereClauseSubqueryIdentifier_AsSubquery(ctx) ==
  selectStatement(ctx.selectStatement[1].children, TRUE)

whereClauseSubqueryIdentifier(ctx) ==
  selectStatement(ctx.selectStatement[1].children, FALSE)

\* literalType || 'STRING': a tag that is null or undefined gives STRING, an
\* array of tags is truthy
orString(literalType) ==
  IF Has(literalType, "scalar") /\ literalType.scalar \in {"null", "undefined"}
  THEN Scalar("STRING") ELSE literalType

\* the array branch of atomicExpression
atomicArray(ctx) ==
  LET arrayValues == arrayExpression(ctx.arrayExpression[1].children)
      dateLiteralTemp == [i \in DOMAIN arrayValues |->
                            IF Has(arrayValues[i], "variable") /\ arrayValues[i].variable # 0
                            THEN JsNum(arrayValues[i].variable) ELSE JsNull]
      hasDateLiterals == \E i \in DOMAIN dateLiteralTemp : dateLiteralTemp[i] # JsNull
      literalType ==
        IF Cardinality({arrayValues[i].type : i \in DOMAIN arrayValues}) = 1
        THEN Scalar(getLiteralTypeFromTokenType(arrayValues[1].type))
        ELSE Arr([i \in DOMAIN arrayValues |->
                    getLiteralTypeFromTokenType(arrayValues[i].type)])
  IN [value |-> [i \in DOMAIN arrayValues |-> arrayValues[i].value],
      literalType |-> orString(literalType)]
     @@ Opt(hasDateLiterals, [dateLiteralVariable |-> Arr(dateLiteralTemp)])

\* atomicExpression with returnLiteralType: the first key present decides
atomicExpression(ctx) ==
  IF Has(ctx, "apexBindVariableExpression")
  THEN [value |-> apexBindVariableExpression(ctx.apexBindVariableExpression[1].children),
        literalType |-> Scalar("APEX_BIND_VARIABLE")]
  ELSE IF Has(ctx, "NumberIdentifier")
  THEN [value |-> ctx.NumberIdentifier[1].image,
        literalType |-> Scalar(getLiteralTypeFromTokenType(ctx.NumberIdentifier[1].tokenType))]
  ELSE IF Has(ctx, "UnsignedInteger")
  THEN [value |-> ctx.UnsignedInteger[1].image, literalType |-> Scalar("INTEGER")]
  ELSE IF Has(ctx, "SignedInteger")
  THEN [value |-> ctx.SignedInteger[1].image, literalType |-> Scalar("INTEGER")]
  ELSE IF Has(ctx, "RealNumber")
  THEN [value |-> ctx.RealNumber[1].image, literalType |-> Scalar("DECIMAL")]
  ELSE IF Has(ctx, "DateIdentifier")
  THEN [value |-> ctx.DateIdentifier[1].image,
        literalType |-> Scalar(getLiteralTypeFromTokenType(ctx.DateIdentifier[1].tokenType))]
  ELSE IF Has(ctx, "CurrencyPrefixedInteger")
  THEN [value |-> ctx.CurrencyPrefixedInteger[1].image,
        literalType |-> Scalar("INTEGER_WITH_CURRENCY_PREFIX")]
  ELSE IF Has(ctx, "CurrencyPrefixedDecimal")
  THEN [value |-> ctx.CurrencyPrefixedDecimal[1].image,
        literalType |-> Scalar("DECIMAL_WITH_CURRENCY_PREFIX")]
  ELSE IF Has(ctx, "DateTime")
  THEN [value |-> ctx.DateTime[1].image, literalType |-> Scalar("DATETIME")]
  ELSE IF Has(ctx, "date")
  THEN [value |-> ctx.DateToken[1].image, literalType |-> Scalar("DATE")]
  ELSE IF Has(ctx, "NULL")
  THEN [value |-> <<"NULL">>, literalType |-> Scalar("NULL")]
  ELSE IF Has(ctx, "StringIdentifier")
  THEN [value |-> ctx.StringIdentifier[1].image, literalType |-> Scalar("STRING")]
  ELSE IF Has(ctx, "Identifier")
  THEN [value |-> ctx.Identifier[1].image, literalType |-> Scalar("STRING")]
  ELSE IF Has(ctx, "booleanValue")
  THEN [value |-> booleanValue(ctx.booleanValue[1].children),
        literalType |-> Scalar("BOOLEAN")]
  ELSE IF Has(ctx, "DateLiteral")
  THEN [value |-> ctx.DateLiteral[1].image, literalType |-> Scalar("DATE_LITERAL")]
  ELSE IF Has(ctx, "dateNLiteral")
  THEN LET valueAndVariable == dateNLiteral(ctx.dateNLiteral[1].children, FALSE)
       IN [value |-> valueAndVariable.value,
           dateLiteralVariable |-> Scalar(valueAndVariable.variable),
           literalType |-> Scalar("DATE_N_LITERAL")]
  ELSE IF Has(ctx, "arrayExpression")
  THEN atomicArray(ctx)
  ELSE IF Has(ctx, "whereClauseSubqueryIdentifier")
  THEN [value |-> whereClauseSubqueryIdentifier(ctx.whereClauseSubqueryIdentifier[1].children),
        literalType |-> Scalar("SUBQUERY")]
  ELSE Empty

\* the keys of an AtomicExpressionContext, in the order atomicExpression
\* tests them
AtomicKeys ==
  <<"apexBindVariableExpression", "NumberIdentifier", "UnsignedInteger",
    "SignedInteger", "RealNumber", "DateIdentifier", "CurrencyPrefixedInteger",
    "CurrencyPrefixedDecimal", "DateTime", "date", "NULL", "StringIdentifier",
    "Identifier", "booleanValue", "DateLiteral", "dateNLiteral",
    "arrayExpression", "whereClauseSubqueryIdentifier">>

\* the branch atomicExpression takes: the first of its keys that ctx holds
atomicBranch(ctx) ==
  IF \E i \in DOMAIN AtomicKeys : Has(ctx, AtomicKeys[i])
  THEN AtomicKeys[CHOOSE i \in DOMAIN AtomicKeys :
                    /\ Has(ctx, AtomicKeys[i])
                    /\ \A j \in 1..(i - 1) : ~Has(ctx, AtomicKeys[j])]
  ELSE "none"

\* atomicExpression raises a TypeError when it reads [0] of an absent key:
\* the ctx.date branch reads ctx.DateToken
atomicExpressionThrows(ctx) ==
  atomicBranch(ctx) = "date" /\ ~Has(ctx, "DateToken")

\* expressionWithRelationalOperator / expressionWithSetOperator
expressionWithOperator(ctx) ==
  [operator |-> IF Has(ctx, "relationalOperator")
                THEN relationalOperator(ctx.relationalOperator[1].children)
                ELSE setOperator(ctx.setOperator[1].children)]
  @@ atomicExpression(ctx.rhs[1].children)

\* if (dateLiteralVariable): 0 is falsy, an array is truthy
truthyVariable(v) == Has(v, "seq") \/ v.scalar # 0

\* recordParens without the R_PAREN block
recordParens_OpenOnly(ctx) ==
  Opt(Has(ctx, "L_PAREN"), [openParen |-> Len(ctx.L_PAREN)])

\* expression, lines 625-630: the counts of grouping parentheses
recordParens(ctx) ==
  Opt(Has(ctx, "L_PAREN"), [openParen |-> Len(ctx.L_PAREN)])
  @@ Opt(Has(ctx, "R_PAREN"), [closeParen |-> Len(ctx.R_PAREN)])

expression(ctx) ==
  LET r == expressionWithOperator(ctx.operator[1].children)
  IN Opt(Has(ctx, "logicalPrefix"), [logicalPrefix |-> ctx.logicalPrefix[1].image])
     @@ (IF isToken(ctx.lhs[1]) THEN [field |-> ctx.lhs[1].image]
         ELSE [fn |-> visitFunction(ctx.lhs[1], FALSE)])
     @@ [operator |-> r.operator]
     @@ (IF Has(r, "literalType") /\ r.literalType = Scalar("SUBQUERY")
         THEN [valueQuery |-> r.value]
         ELSE Opt(Has(r, "value"), [value |-> r.value])
              @@ Opt(Has(r, "literalType"), [literalType |-> r.literalType]))
     @@ Opt(Has(r, "dateLiteralVariable") /\ truthyVariable(r.dateLiteralVariable),
            [dateLiteralVariable |-> r.dateLiteralVariable])
     @@ recordParens(ctx)

\* conditionExpression: the node built for one condition
conditionExpression(ctx) == [left |-> expression(ctx.expression[1].children)]

\* conditionExpression: the logical operator it writes into prevExpression
prevExpressionOperator(ctx) ==
  Opt(Has(ctx, "logicalOperator"), [operator |-> ctx.logicalOperator[1].tokenType])

RECURSIVE reduceConditions(_, _)
\* the reduce writing the logical operator of a condition into the node of
\* that condition instead of the previous node
reduceConditions_OwnOperator(conds, i) ==
  conditionExpression(conds[i].children)
  @@ (IF i > 1 THEN prevExpressionOperator(conds[i].children) ELSE Empty)
  @@ (IF i < Len(conds) THEN [right |-> reduceConditions(conds, i + 1)] ELSE Empty)

\* the reduce of whereClause / havingClause, from condition i on
reduceConditions(conds, i) ==
  conditionExpression(conds[i].children)
  @@ (IF i < Len(conds)
      THEN prevExpressionOperator(conds[i + 1].children)
           @@ [right |-> reduceConditions(conds, i + 1)]
      ELSE Empty)

whereClause(ctx) == reduceConditions(ctx.conditionExpression, 1)

havingClause(ctx) == reduceConditions(ctx.conditionExpression, 1)

groupByFieldList(ctx) ==
  IF Len(ctx.field) > 1 THEN [i \in DOMAIN ctx.field |-> ctx.field[i].image]
  ELSE ctx.field[1].image

groupByClause(ctx) ==
  LET field == [i \in DOMAIN ctx.groupByFieldList |->
                  groupByFieldList(ctx.groupByFieldList[i].children)]
  IN Opt(Has(ctx, "groupByFieldList"),
         [field |-> IF Len(field) = 1 THEN field[1] ELSE field])
     @@ Opt(Has(ctx, "fn"), [fn |-> visitFunction(ctx.fn[1], FALSE)])
     @@ Opt(Has(ctx, "havingClause"),
            [having |-> havingClause(ctx.havingClause[1].children)])

\* the order / nulls attributes shared by the three orderBy methods
orderAndNulls(ctx) ==
  Opt(Has(ctx, "order") /\ Len(ctx.order) > 0, [order |-> ctx.order[1].tokenType])
  @@ Opt(Has(ctx, "nulls") /\ Len(ctx.nulls) > 0, [nulls |-> ctx.nulls[1].tokenType])

orderByExpression(ctx) ==
  [field |-> ctx.Identifier[1].image] @@ orderAndNulls(ctx)

orderByFunctionExpression(ctx) ==
  [fn |-> getFieldFunction(ctx, FALSE, FALSE)] @@ orderAndNulls(ctx)

orderByLocationExpression(ctx) ==
  [fn |-> visitFunction(ctx.locationFunction[1], FALSE)] @@ orderAndNulls(ctx)

\* this.visit(item) on one ORDER BY criterion
visitOrderBy(node) ==
  IF node.name = "orderByExpression" THEN orderByExpression(node.children)
  ELSE IF node.name = "orderByFunctionExpression"
  THEN orderByFunctionExpression(node.children)
  ELSE orderByLocationExpression(node.children)

\* orderByClause always mapping the criteria to an array
orderByClause_AlwaysArray(ctx) ==
  Arr([i \in DOMAIN ctx.orderByExpressionOrFn |->
         visitOrderBy(ctx.orderByExpressionOrFn[i])])

\* orderByClause: one criterion gives the value itself, several an array
orderByClause(ctx) ==
  IF Len(ctx.orderByExpressionOrFn) = 1
  THEN visitOrderBy(ctx.orderByExpressionOrFn[1])
  ELSE Arr([i \in DOMAIN ctx.orderByExpressionOrFn |->
              visitOrderBy(ctx.orderByExpressionOrFn[i])])

limitClause(ctx) == ctx.value[1].image

offsetClause(ctx) == ctx.value[1].image

\* selectStatement, lines 142-157: the FROM target and its alias
bindFrom(output, from, isSubquery) ==
  IF isSubqueryFromFlag(output, isSubquery)
  THEN output @@ [relationshipName |-> from.sObject]
       @@ Opt(Has(from, "alias") /\ from.alias # <<>>, [sObjectAlias |-> from.alias])
       @@ Opt(Has(from, "sObjectPrefix"), [sObjectPrefix |-> from.sObjectPrefix])
  ELSE output @@ [sObject |-> from.sObject]
       @@ Opt(Has(from, "alias") /\ from.alias # <<>>, [sObjectAlias |-> from.alias])

\* selectStatement, lines 159-170: the pass over output.fields
resolveAliases(output) ==
  IF Has(output, "sObjectAlias") /\ output.sObjectAlias # <<>>
  THEN [output EXCEPT !.fields =
          [i \in DOMAIN @ |-> resolveAlias(@[i], output.sObjectAlias)]]
  ELSE output

\* selectStatement, lines 172-174
bindUsingScope(output, ctx, isSubquery) ==
  output @@ Opt(Has(ctx, "usingScopeClause"),
                [usingScope |-> usingScopeClause(ctx.usingScopeClause[1].children)])

\* withClause, forViewOrReference and updateTrackingViewstat are not part of
\* this model
selectStatement(ctx, isSubquery) ==
  LET output0 == [fields |-> selectClause(ctx.selectClause[1].children)]
      output1 == bindFrom(output0, fromClause(ctx.fromClause[1].children), isSubquery)
      output2 == resolveAliases(output1)
      output3 == bindUsingScope(output2, ctx, isSubquery)
  IN output3
     @@ Opt(Has(ctx, "whereClause"),
            [where |-> whereClause(ctx.whereClause[1].children)])
     @@ Opt(Has(ctx, "groupByClause"),
            [groupBy |-> groupByClause(ctx.groupByClause[1].children)])
     @@ Opt(Has(ctx, "orderByClause"),
            [orderBy |-> orderByClause(ctx.orderByClause[1].children)])
     @@ Opt(Has(ctx, "limitClause"),
            [limit |-> NumberOf(limitClause(ctx.limitClause[1].children))])
     @@ Opt(Has(ctx, "offsetClause"),
            [offset |-> NumberOf(offsetClause(ctx.offsetClause[1].children))])

RECURSIVE selectStatementThrows(_)

\* the right-hand side context of a condition expression node
rhsOf(cond) ==
  cond.children.expression[1].children.operator[1].children.rhs[1].children

\* whether building one of the conditions raises
conditionsThrow(conds) ==
  \E i \in DOMAIN conds :
     \/ atomicExpressionThrows(rhsOf(conds[i]))
     \/ /\ atomicBranch(rhsOf(conds[i])) = "whereClauseSubqueryIdentifier"
        /\ selectStatementThrows(
             rhsOf(conds[i]).whereClauseSubqueryIdentifier[1].children.selectStatement[1].children)

\* whether visitor.visit raises on the statement: an exception of any visit
\* method propagates to the caller of selectStatement
selectStatementThrows(ctx) ==
  \/ LET items == ctx.selectClause[1].children.field
     IN \E i \in DOMAIN items :
          /\ ~isToken(items[i])
          /\ items[i].name = "selectClauseSubqueryIdentifier"
          /\ selectStatementThrows(items[i].children.selectStatement[1].children)
  \/ /\ Has(ctx, "whereClause")
     /\ conditionsThrow(ctx.whereClause[1].children.conditionExpression)
  \/ /\ Has(ctx, "groupByClause")
     /\ Has(ctx.groupByClause[1].children, "havingClause")
     /\ conditionsThrow(
          ctx.groupByClause[1].children.havingClause[1].children.conditionExpression)

-----------------------------------------------------------------------------
(* The parser: parse(soql) gives the CST of a text or raises.  The inputs  *)
(* are the parse trees of the grammar's rules, built by the constructors   *)
(* below; a text whose grouping parentheses do not balance is rejected.    *)

Tok(type, image) == [image |-> image, tokenType |-> type]

Node(name, children) == [name |-> name, children |-> children]

IdTok(image) == Tok("Identifier", image)

RECURSIVE Join(_)
\* the image of a dotted identifier with the given segments
Join(segs) ==
  IF Len(segs) = 1 THEN <<segs[1]>>
  ELSE <<segs[1], ".">> \o Join(Tail(segs))

SeqsUpTo(S, n) == UNION {[1..k -> S] : k \in 1..n}

Parens(type, image, n) == [i \in 1..n |-> Tok(type, <<image>>)]

RECURSIVE SumParen(_, _, _)
\* the number of key tokens (L_PAREN / R_PAREN) of the first k conditions
SumParen(conds, key, k) ==
  IF k = 0 THEN 0
  ELSE LET e == conds[k].children.expression[1].children
       IN SumParen(conds, key, k - 1) + (IF Has(e, key) THEN Len(e[key]) ELSE 0)

\* the grouping parentheses of a condition chain balance
ParensBalanced(conds) ==
  /\ \A k \in DOMAIN conds :
        SumParen(conds, "L_PAREN", k) >= SumParen(conds, "R_PAREN", k)
  /\ SumParen(conds, "L_PAREN", Len(conds)) = SumParen(conds, "R_PAREN", Len(conds))

\* whether parse(soql) raises: the parser collected a syntax error
parseRaises(text) ==
  LET ctx == text.cst.children
  IN \/ /\ Has(ctx, "whereClause")
        /\ ~ParensBalanced(ctx.whereClause[1].children.conditionExpression)
     \/ /\ Has(ctx, "groupByClause")
        /\ Has(ctx.groupByClause[1].children, "havingClause")
        /\ ~ParensBalanced(
              ctx.groupByClause[1].children.havingClause[1].children.conditionExpression)

\* parse(soql) when it does not raise
parse(text) == text.cst

(* Parse trees *)

\* the text whose parse tree is the select statement st
Text(st) == [cst |-> Node("selectStatement", st)]

Stmt(fields, from, extra) ==
  [selectClause |-> <<Node("selectClause", [field |-> fields])>>,
   fromClause |-> <<Node("fromClause", from)>>] @@ extra

Paths == {Join(p) : p \in SeqsUpTo({"a", "Name"}, MaxSegs)}

ShortPaths == {Join(p) : p \in SeqsUpTo({"a", "Name"}, 2)}

FromSegs(k) ==
  [i \in 1..k |-> IF i = k THEN "Account" ELSE IF i = 1 THEN "ns" ELSE "pkg"]

AliasOpts == {Empty, [alias |-> <<IdTok(<<"a">>)>>]}

FromCtxs ==
  {[Identifier |-> <<IdTok(Join(FromSegs(k)))>>] @@ al :
     k \in 1..MaxSegs, al \in AliasOpts}

PlainFrom == [Identifier |-> <<IdTok(<<"Account">>)>>]

FieldItems(p) ==
  {IdTok(p),
   Node("selectClauseIdentifier",
        [field |-> <<IdTok(p)>>, alias |-> <<IdTok(<<"x">>)>>])}

ScopeOpts ==
  {Empty,
   [usingScopeClause |->
      <<Node("usingScopeClause",
             [UsingScopeEnumeration |-> <<Tok("UsingScopeEnumeration", <<"mine">>)>>])>>]}

\* SELECT <path> [x] FROM <from> [a] [USING SCOPE mine]
InitPlain ==
  \E p \in Paths : \E f \in FieldItems(p) : \E from \in FromCtxs : \E sc \in ScopeOpts :
     soql = Text(Stmt(<<f>>, from, sc))

SubqueryItem(st) ==
  Node("selectClauseSubqueryIdentifier",
       [selectStatement |-> <<Node("selectStatement", st)>>,
        L_PAREN |-> Parens("L_PAREN", "(", 1),
        R_PAREN |-> Parens("R_PAREN", ")", 1)])

InnerStmts ==
  {Stmt(<<IdTok(p)>>, from, sc) :
     p \in ShortPaths, from \in FromCtxs, sc \in ScopeOpts}

\* SELECT Id, (SELECT ... FROM ...) FROM Account [a]
InitNested ==
  \E inner \in InnerStmts : \E al \in AliasOpts :
     soql = Text(Stmt(<<IdTok(<<"Id">>), SubqueryItem(inner)>>, PlainFrom @@ al, Empty))

\* a subquery within a subquery
InitDeep ==
  \E inner \in InnerStmts :
     soql = Text(Stmt(<<SubqueryItem(Stmt(<<IdTok(Join(<<"a", "Name">>)),
                                           SubqueryItem(inner)>>,
                                         [Identifier |-> <<IdTok(<<"Contacts">>)>>,
                                          alias |-> <<IdTok(<<"a">>)>>], Empty))>>,
                     PlainFrom, Empty))

Expr(lhs, opnode, l, r) ==
  [lhs |-> <<lhs>>, operator |-> <<opnode>>]
  @@ Opt(l > 0, [L_PAREN |-> Parens("L_PAREN", "(", l)])
  @@ Opt(r > 0, [R_PAREN |-> Parens("R_PAREN", ")", r)])

RelOp(rhs) ==
  Node("expressionWithRelationalOperator",
       [relationalOperator |->
          <<Node("relationalOperator", [operator |-> <<Tok("EQUAL", <<"=">>)>>])>>,
        rhs |-> <<Node("atomicExpression", rhs)>>])

SetOp(name, rhs) ==
  Node("expressionWithSetOperator",
       [setOperator |->
          <<Node("setOperator", [operator |-> <<Tok(name, <<name>>)>>])>>,
        rhs |-> <<Node("atomicExpression", rhs)>>])

Cond(logic, expr) ==
  Node("conditionExpression",
       Opt(logic # "", [logicalOperator |-> <<Tok(logic, <<logic>>)>>])
       @@ [expression |-> <<Node("expression", expr)>>])

WhereStmt(conds) ==
  Stmt(<<IdTok(<<"Id">>)>>, PlainFrom,
       [whereClause |-> <<Node("whereClause", [conditionExpression |-> conds])>>])

HavingStmt(conds) ==
  Stmt(<<IdTok(<<"Id">>)>>, PlainFrom,
       [groupByClause |->
          <<Node("groupByClause",
                 [groupByFieldList |->
                    <<Node("groupByFieldList", [field |-> <<IdTok(<<"Type">>)>>])>>,
                  havingClause |->
                    <<Node("havingClause", [conditionExpression |-> conds])>>])>>])

\* COUNT(Id)
CountFn ==
  Node("aggregateFunction",
       [fn |-> <<Tok("COUNT", <<"COUNT">>)>>,
        L_PAREN |-> Parens("L_PAREN", "(", 1),
        functionExpression |->
          <<Node("functionExpression", [params |-> <<IdTok(<<"Id">>)>>])>>,
        R_PAREN |-> Parens("R_PAREN", ")", 1)])

One(key, type, image) == [k \in {key} |-> <<Tok(type, image)>>]

\* the images of the unsigned integers used after the colon of a date-N literal
Digits == {<<"0">>, <<"7">>, <<"0", "7">>, <<"1", "2">>, <<"0", "0">>}

DateNNode(name, digits) ==
  Node("dateNLiteral",
       [dateNLiteral |-> <<Tok(name, <<name>>)>>,
        Colon |-> <<Tok("Colon", <<":">>)>>,
        variable |-> <<Tok("UNSIGNED_INTEGER", digits)>>])

DateNNodes == {DateNNode(n, d) : n \in {"LAST_N_DAYS", "NEXT_N_WEEKS"}, d \in Digits}

\* one context for each alternative of atomicExpression that is a literal
ScalarAtoms ==
  {[apexBindVariableExpression |->
      <<Node("apexBindVariableExpression",
             [Colon |-> <<Tok("Colon", <<":">>)>>, Identifier |-> <<IdTok(<<"v">>)>>])>>],
   One("NumberIdentifier", "UNSIGNED_INTEGER", <<"1">>),
   One("NumberIdentifier", "SIGNED_INTEGER", <<"-", "1">>),
   One("NumberIdentifier", "REAL_NUMBER", <<"1", ".", "5">>),
   One("NumberIdentifier", "SIGNED_DECIMAL", <<"-", "1", ".", "5">>),
   One("NumberIdentifier", "UNSIGNED_DECIMAL", <<"1", ".", "5">>),
   One("UnsignedInteger", "UNSIGNED_INTEGER", <<"1">>),
   One("SignedInteger", "SIGNED_INTEGER", <<"-", "1">>),
   One("RealNumber", "REAL_NUMBER", <<"1", ".", "5">>),
   One("DateIdentifier", "DATE", <<"2020-01-01">>),
   One("DateIdentifier", "DATETIME", <<"2020-01-01T00:00:00Z">>),
   One("CurrencyPrefixedInteger", "CURRENCY_PREFIXED_INTEGER", <<"USD", "1">>),
   One("CurrencyPrefixedDecimal", "CURRENCY_PREFIXED_DECIMAL", <<"USD", "1", ".", "5">>),
   One("DateTime", "DATETIME", <<"2020-01-01T00:00:00Z">>),
   One("date", "DATE", <<"2020-01-01">>),
   One("NULL", "NULL", <<"null">>),
   One("StringIdentifier", "StringIdentifier", <<"'foo'">>),
   One("Identifier", "Identifier", <<"foo">>),
   [booleanValue |-> <<Node("booleanValue", [boolean |-> <<Tok("TRUE", <<"true">>)>>])>>],
   [booleanValue |-> <<Node("booleanValue", [boolean |-> <<Tok("FALSE", <<"false">>)>>])>>],
   One("DateLiteral", "YESTERDAY", <<"YESTERDAY">>),
   One("DateLiteral", "NEXT_FISCAL_YEAR", <<"NEXT_FISCAL_YEAR">>)}
  \cup {[dateNLiteral |-> <<n>>] : n \in DateNNodes}

\* the elements of an array literal: tokens and date-N nodes
ArrayElems ==
  {Tok("TRUE", <<"TRUE">>), Tok("FALSE", <<"FALSE">>),
   Tok("UNSIGNED_INTEGER", <<"1">>), Tok("SIGNED_INTEGER", <<"-", "1">>),
   Tok("REAL_NUMBER", <<"1", ".", "5">>),
   Tok("CURRENCY_PREFIXED_INTEGER", <<"USD", "1">>),
   Tok("NULL", <<"null">>), Tok("StringIdentifier", <<"'foo'">>),
   Tok("DATE", <<"2020-01-01">>),
   Tok("YESTERDAY", <<"YESTERDAY">>), Tok("TODAY", <<"TODAY">>),
   DateNNode("LAST_N_DAYS", <<"0">>), DateNNode("LAST_N_DAYS", <<"7">>),
   DateNNode("NEXT_N_WEEKS", <<"1", "2">>)}

ArrayAtom(elems) ==
  [arrayExpression |->
     <<Node("arrayExpression",
            [L_PAREN |-> Parens("L_PAREN", "(", 1), value |-> elems,
             R_PAREN |-> Parens("R_PAREN", ")", 1)])>>]

SubqueryAtoms ==
  {[whereClauseSubqueryIdentifier |->
      <<Node("whereClauseSubqueryIdentifier",
             [L_PAREN |-> Parens("L_PAREN", "(", 1),
              selectStatement |-> <<Node("selectStatement", st)>>,
              R_PAREN |-> Parens("R_PAREN", ")", 1)])>>] :
     st \in InnerStmts}

\* SELECT Id FROM Account WHERE f <op> <rhs>
InitLiteral ==
  \/ \E a \in ScalarAtoms :
        soql = Text(WhereStmt(<<Cond("", Expr(IdTok(<<"f">>), RelOp(a), 0, 0))>>))
  \/ \E op \in {"IN", "NOT_IN"} : \E a \in SubqueryAtoms :
        soql = Text(WhereStmt(<<Cond("", Expr(IdTok(<<"f">>), SetOp(op, a), 0, 0))>>))
  \/ \E op \in {"IN", "NOT_IN"} : \E k \in 1..MaxArr : \E e \in [1..k -> ArrayElems] :
        soql = Text(WhereStmt(<<Cond("", Expr(IdTok(<<"f">>), SetOp(op, ArrayAtom(e)), 0, 0))>>))

\* condition i of a chain: the first compares with an array literal, the
\* others with a string and carry the connective; l and r are its grouping
\* parentheses
ChainCond(i, logic, lhs, l, r) ==
  Cond(IF i = 1 THEN "" ELSE logic,
       Expr(lhs,
            IF i = 1 THEN SetOp("IN", ArrayAtom(<<Tok("UNSIGNED_INTEGER", <<"1">>)>>))
            ELSE RelOp(One("StringIdentifier", "StringIdentifier", <<"'foo'">>)),
            l, r))

Chain(n, logic, lhs, L, R) == [i \in 1..n |-> ChainCond(i, logic, lhs, L[i], R[i])]

\* WHERE and HAVING chains, with balanced and with unbalanced parentheses
InitChain ==
  \E n \in 1..MaxConds : \E L \in [1..n -> 0..MaxParen] : \E R \in [1..n -> 0..MaxParen] :
     \E logic \in {"AND", "OR"} :
        \/ soql = Text(WhereStmt(Chain(n, logic, IdTok(<<"f">>), L, R)))
        \/ soql = Text(HavingStmt(Chain(n, logic, CountFn, L, R)))

\* condition i of a chain with mixed connectives: f<i> = 'foo', preceded by
\* the connective written before it
MixedCond(i, logic) ==
  Cond(IF i = 1 THEN "" ELSE logic[i],
       Expr(IdTok(<<"f", ToString(i)>>),
            RelOp(One("StringIdentifier", "StringIdentifier", <<"'foo'">>)), 0, 0))

\* WHERE and HAVING chains of up to MaxChain conditions, each connective AND
\* or OR
InitMixed ==
  \E n \in 1..MaxChain : \E logic \in [2..n -> {"AND", "OR"}] :
     LET conds == [i \in 1..n |-> MixedCond(i, logic)]
     IN \/ soql = Text(WhereStmt(conds))
        \/ soql = Text(HavingStmt(conds))

\* a function call NAME(params) parsed by the rule `rule`
Fn(rule, name, params) ==
  Node(rule,
       [fn |-> <<Tok(name, <<name>>)>>,
        functionExpression |->
          <<Node("functionExpression", [params |-> params])>>])

\* GEOLOCATION(1, 2)
GeoFn ==
  Node("geolocationFunction",
       [latitude |-> <<Tok("UNSIGNED_INTEGER", <<"1">>)>>,
        longitude |-> <<Tok("UNSIGNED_INTEGER", <<"2">>)>>])

\* DISTANCE(Loc, second, 'mi')
DistanceFn(second) ==
  Node("locationFunction",
       [location1 |-> <<IdTok(<<"Loc">>)>>,
        location2 |-> <<second>>,
        unit |-> <<Tok("StringIdentifier", <<"'mi'">>)>>])

\* the names the lexer gives the aggregate functions
AggregateNames == {"COUNT", "COUNT_DISTINCT", "SUM", "AVG", "MIN", "MAX"}

\* function calls: aggregate, date and other functions, plain and nested,
\* and DISTANCE with a field and with GEOLOCATION
FnNodes ==
  {Fn("aggregateFunction", a, <<IdTok(<<"Id">>)>>) : a \in AggregateNames}
  \cup
  {Node("aggregateFunction", [fn |-> <<Tok("COUNT", <<"COUNT">>)>>]),
   Fn("dateFunction", "CALENDAR_YEAR", <<IdTok(<<"CreatedDate">>)>>),
   Fn("dateFunction", "CALENDAR_YEAR",
      <<Fn("otherFunction", "CONVERT_TIMEZONE", <<IdTok(<<"CreatedDate">>)>>)>>),
   Fn("otherFunction", "FORMAT", <<IdTok(<<"Name">>)>>),
   Fn("otherFunction", "FORMAT",
      <<Fn("aggregateFunction", "MAX", <<IdTok(<<"Amount">>)>>)>>),
   Fn("otherFunction", "FORMAT",
      <<Fn("otherFunction", "CONVERT_CURRENCY",
           <<Fn("aggregateFunction", "SUM", <<IdTok(<<"Amount">>)>>)>>)>>),
   Fn("otherFunction", "GROUPING", <<IdTok(<<"Type">>), IdTok(<<"Name">>)>>),
   DistanceFn(IdTok(<<"Other">>)),
   DistanceFn(GeoFn)}

\* the functions of GROUP BY: a date function, CUBE(...) and ROLLUP(...)
GroupFnNodes ==
  {Fn("dateFunction", "CALENDAR_YEAR", <<IdTok(<<"CreatedDate">>)>>),
   Fn("cubeFunction", "CUBE", <<IdTok(<<"Type">>), IdTok(<<"Name">>)>>),
   Fn("rollupFunction", "ROLLUP",
      <<IdTok(<<"Type">>),
        Fn("dateFunction", "CALENDAR_YEAR", <<IdTok(<<"CreatedDate">>)>>)>>)}

\* ASC | DESC and NULLS FIRST | LAST of an ORDER BY criterion; "" is absent
OrderOpts(order, nulls) ==
  Opt(order # "", [order |-> <<Tok(order, <<order>>)>>])
  @@ Opt(nulls # "", [nulls |-> <<Tok(nulls, <<nulls>>)>>])

\* an ORDER BY criterion on a function call: the rule holds the function
\* token and its functionExpression itself
OrderFn(f, order, nulls) ==
  IF f.name = "locationFunction"
  THEN Node("orderByLocationExpression",
            [locationFunction |-> <<f>>] @@ OrderOpts(order, nulls))
  ELSE Node("orderByFunctionExpression", f.children @@ OrderOpts(order, nulls))

OrderField(image, order, nulls) ==
  Node("orderByExpression",
       [Identifier |-> <<IdTok(image)>>] @@ OrderOpts(order, nulls))

\* SELECT <f> FROM Account <clause with g>
FnStmt(f, alias, extra) ==
  Stmt(<<Node("selectClauseFunctionIdentifier",
              [fn |-> <<f>>] @@ Opt(alias # <<>>, [alias |-> <<IdTok(alias)>>]))>>,
       PlainFrom, extra)

WhereOn(g) ==
  [whereClause |->
     <<Node("whereClause",
            [conditionExpression |->
               <<Cond("", Expr(g, RelOp(One("UnsignedInteger", "UNSIGNED_INTEGER",
                                             <<"5">>)), 0, 0))>>])>>]

HavingOn(g) ==
  [groupByClause |->
     <<Node("groupByClause",
            [groupByFieldList |->
               <<Node("groupByFieldList", [field |-> <<IdTok(<<"Type">>)>>])>>,
             havingClause |->
               <<Node("havingClause",
                      [conditionExpression |->
                         <<Cond("", Expr(g, RelOp(One("UnsignedInteger",
                                                       "UNSIGNED_INTEGER", <<"5">>)),
                                         0, 0))>>])>>])>>]

GroupOn(g) == [groupByClause |-> <<Node("groupByClause", [fn |-> <<g>>])>>]

OrderOn(items) ==
  [orderByClause |-> <<Node("orderByClause", [orderByExpressionOrFn |-> items])>>]

\* a function call in the projection and one in WHERE, HAVING, GROUP BY or
\* ORDER BY
InitFunctions ==
  \E f \in FnNodes : \E alias \in {<<>>, <<"n">>} :
     \/ \E g \in FnNodes :
           \/ soql = Text(FnStmt(f, alias, WhereOn(g)))
           \/ soql = Text(FnStmt(f, alias, HavingOn(g)))
           \/ soql = Text(FnStmt(f, alias, OrderOn(<<OrderFn(g, "", "")>>)))
     \/ \E g \in GroupFnNodes : soql = Text(FnStmt(f, alias, GroupOn(g)))

\* the criteria of ORDER BY: a field, a function call and DISTANCE, each
\* with and without ASC | DESC and NULLS FIRST | LAST
OrderItems ==
  {OrderField(<<"Name">>, o, n) : o \in {"", "ASC", "DESC"}, n \in {"", "FIRST", "LAST"}}
  \cup {OrderFn(CountFn, o, n) : o \in {"", "ASC", "DESC"}, n \in {"", "FIRST", "LAST"}}
  \cup {OrderFn(DistanceFn(GeoFn), o, n) :
           o \in {"", "ASC", "DESC"}, n \in {"", "FIRST", "LAST"}}

\* SELECT Id FROM Account ORDER BY <1..MaxOrder criteria>
InitOrderBy ==
  \E k \in 1..MaxOrder : \E items \in [1..k -> OrderItems] :
     soql = Text(Stmt(<<IdTok(<<"Id">>)>>, PlainFrom, OrderOn(items)))

-----------------------------------------------------------------------------
(* The facade: one text, one call of parseQuery and one of isQueryValid    *)

NoQuery == Empty

\* the record of the latest call before any call was made
NoCall == [fn |-> "none"]

\* no call of a sequence was made, on an empty options object
NoCalls ==
  /\ given = Empty
  /\ config = Empty
  /\ listenerRaises = {}
  /\ visitor = Empty
  /\ calls = 0
  /\ last = NoCall

Init ==
  /\ \/ InitPlain \/ InitNested \/ InitDeep \/ InitLiteral \/ InitChain
     \/ InitFunctions \/ InitOrderBy \/ InitMixed
  /\ pc = "idle"
  /\ query = NoQuery
  /\ valid = "unset"
  /\ NoCalls

\* parseQuery(soql): visitor.visit(parse(soql)); an exception of parse or of
\* the visitor reaches the caller
ParseQuery ==
  /\ pc = "idle"
  /\ IF parseRaises(soql)
     THEN pc' = "syntaxError" /\ query' = NoQuery
     ELSE IF selectStatementThrows(parse(soql).children)
     THEN pc' = "typeError" /\ query' = NoQuery
     ELSE pc' = "returned" /\ query' = selectStatement(parse(soql).children, FALSE)
  /\ UNCHANGED <<soql, valid>>
  /\ UNCHANGED callVars

\* isQueryValid(soql): try { parse(soql); return true } catch { return false }
IsQueryValid ==
  /\ valid = "unset"
  /\ valid' = IF parseRaises(soql) THEN "false" ELSE "true"
  /\ UNCHANGED <<soql, pc, query>>
  /\ UNCHANGED callVars

Next == ParseQuery \/ IsQueryValid

Spec == Init /\ [][Next]_vars

-----------------------------------------------------------------------------
(* Sequences of calls.  The caller holds one options object (config; given *)
(* is the object as the caller created it) and calls parseQuery and        *)
(* isQueryValid of the visitor module and parseQuery of SoqlParser.ts, in  *)
(* any order, on texts of CallTexts.  visitor holds the fields of the      *)
(* module-level SOQLVisitor instance.  last records the latest call.       *)
(* The generated parser, SyntaxErrorListener and Listener are not part of  *)
(* the sources: the texts on which the walk of Listener raises are the set *)
(* listenerRaises, fixed but unknown.                                      *)

\* a JavaScript boolean and a value that is not a boolean
JsBool(b) == [bool |-> b]

JsString(str) == [str |-> str]

\* _.isBoolean
isBoolean(v) == Has(v, "bool")

\* !v for the values of the model: undefined and false are falsy
falsy(obj, key) == ~Has(obj, key) \/ (isBoolean(obj[key]) /\ ~obj[key].bool)

\* one assignment of configureDefaults
defaulted(cfg, key, default) ==
  IF Has(cfg, key) /\ isBoolean(cfg[key]) THEN cfg[key] ELSE JsBool(default)

\* configureDefaults keeping whatever value was given
configureDefaults_KeepAny(cfg) ==
  [continueIfErrors |-> IF Has(cfg, "continueIfErrors") THEN cfg.continueIfErrors
                        ELSE JsBool(FALSE),
   logging |-> IF Has(cfg, "logging") THEN cfg.logging ELSE JsBool(FALSE),
   includeSubqueryAsField |-> IF Has(cfg, "includeSubqueryAsField")
                              THEN cfg.includeSubqueryAsField ELSE JsBool(TRUE)]

\* configureDefaults negating a given continueIfErrors
configureDefaults_Negate(cfg) ==
  [continueIfErrors |-> IF Has(cfg, "continueIfErrors") /\ isBoolean(cfg.continueIfErrors)
                        THEN JsBool(~cfg.continueIfErrors.bool) ELSE JsBool(FALSE),
   logging |-> defaulted(cfg, "logging", FALSE),
   includeSubqueryAsField |-> defaulted(cfg, "includeSubqueryAsField", TRUE)]

\* configureDefaults: the object after the three assignments (it is the
\* caller's object that is written)
configureDefaults(cfg) ==
  [continueIfErrors |-> defaulted(cfg, "continueIfErrors", FALSE),
   logging |-> defaulted(cfg, "logging", FALSE),
   includeSubqueryAsField |-> defaulted(cfg, "includeSubqueryAsField", TRUE)]

\* getSoqlQueryContext: the parser of the text; unless continueIfErrors is
\* truthy its error listeners are replaced by a SyntaxErrorListener
getSoqlQueryContext(text, cfg) ==
  [input |-> text,
   errorListener |-> IF falsy(cfg, "continueIfErrors") THEN "SyntaxErrorListener"
                     ELSE "ConsoleErrorListener"]

\* parser.soql_query(): SyntaxErrorListener raises on a syntax error, the
\* default listener reports it and the parser recovers
soql_queryRaises(parser) ==
  parseRaises(parser.input) /\ parser.errorListener = "SyntaxErrorListener"

\* listener.soqlQuery after the walk: what Listener(config) built from the
\* parse tree
soqlQuery(text, cfg) == [tree |-> text.cst, config |-> cfg]

\* parseQuery of SoqlParser.ts on the caller's object cfg: the outcome and
\* the object after the call
SoqlParser_parseQuery(text, cfg, raising) ==
  LET cfg1 == configureDefaults(cfg)
      parser == getSoqlQueryContext(text, cfg1)
  IN [config |-> cfg1,
      outcome |-> IF soql_queryRaises(parser) THEN [kind |-> "syntaxError"]
                  ELSE IF text \in raising THEN [kind |-> "walkError"]
                  ELSE [kind |-> "returned", value |-> soqlQuery(text, cfg1)]]

\* parseQuery of the visitor module: visitor.visit(parse(soql))
parseQuery(text) ==
  IF parseRaises(text) THEN [kind |-> "syntaxError"]
  ELSE IF selectStatementThrows(parse(text).children) THEN [kind |-> "typeError"]
  ELSE [kind |-> "returned", value |-> selectStatement(parse(text).children, FALSE)]

\* isQueryValid of the visitor module
isQueryValid(text) == [kind |-> "returned", value |-> JsBool(~parseRaises(text))]

\* the texts of the calls: a plain query, one with an alias, one whose
\* grouping parentheses do not balance and one comparing with a date
CallTexts ==
  {Text(Stmt(<<IdTok(<<"Id">>)>>, PlainFrom, Empty)),
   Text(Stmt(<<IdTok(<<"a", ".", "Name">>)>>,
             [Identifier |-> <<IdTok(<<"Account">>)>>, alias |-> <<IdTok(<<"a">>)>>],
             Empty)),
   Text(WhereStmt(<<Cond("", Expr(IdTok(<<"f">>),
                                  RelOp(One("StringIdentifier", "StringIdentifier",
                                            <<"'foo'">>)), 1, 0))>>)),
   Text(WhereStmt(<<Cond("", Expr(IdTok(<<"f">>),
                                  RelOp(One("date", "DATE", <<"2020-01-01">>)),
                                  0, 0))>>))}

\* the values a caller gives an option: a boolean or a string
OptionValues == {JsBool(TRUE), JsBool(FALSE), JsString("yes")}

OptionKeys == {"continueIfErrors", "logging", "includeSubqueryAsField"}

InitCalls ==
  /\ soql \in CallTexts
  /\ pc = "idle"
  /\ query = NoQuery
  /\ valid = "unset"
  /\ \E keys \in SUBSET OptionKeys : given \in [keys -> OptionValues]
  /\ config = given
  /\ listenerRaises \in SUBSET {t \in CallTexts : parseRaises(t)}
  /\ visitor = Empty
  /\ calls = 0
  /\ last = NoCall

CallParseQuery ==
  /\ calls < MaxCalls
  /\ \E text \in CallTexts :
        last' = [fn |-> "parseQuery", soql |-> text, before |-> config,
                 outcome |-> parseQuery(text)]
  /\ calls' = calls + 1
  /\ UNCHANGED <<soql, pc, query, valid, given, config, listenerRaises, visitor>>

CallIsQueryValid ==
  /\ calls < MaxCalls
  /\ \E text \in CallTexts :
        last' = [fn |-> "isQueryValid", soql |-> text, before |-> config,
                 outcome |-> isQueryValid(text)]
  /\ calls' = calls + 1
  /\ UNCHANGED <<soql, pc, query, valid, given, config, listenerRaises, visitor>>

CallSoqlParserParseQuery ==
  /\ calls < MaxCalls
  /\ \E text \in CallTexts :
        LET r == SoqlParser_parseQuery(text, config, listenerRaises)
        IN /\ config' = r.config
           /\ last' = [fn |-> "SoqlParser.parseQuery", soql |-> text,
                       before |-> config, outcome |-> r.outcome]
  /\ calls' = calls + 1
  /\ UNCHANGED <<soql, pc, query, valid, given, listenerRaises, visitor>>

NextCalls == CallParseQuery \/ CallIsQueryValid \/ CallSoqlParserParseQuery

SpecCalls == InitCalls /\ [][NextCalls]_vars

-----------------------------------------------------------------------------
(* Views of the input and of the result used by the properties             *)

Returned == pc = "returned"

InputCtx == soql.cst.children

RECURSIVE ChainLefts(_)
\* the conditions of a WhereClause / HavingClause chain, in order
ChainLefts(node) ==
  <<node.left>> \o (IF Has(node, "right") THEN ChainLefts(node.right) ELSE <<>>)

RECURSIVE ProjectionPairs(_, _)
\* the triples <<ctx, value, field>> of the parenthesised select statements
\* of the projection list of statement ctx (built as out), at every depth:
\* the nested context, the value built for it and the element of fields
\* that holds it
ProjectionPairs(ctx, out) ==
  LET items == ctx.selectClause[1].children.field
      subs == {i \in DOMAIN items :
                 ~isToken(items[i]) /\ items[i].name = "selectClauseSubqueryIdentifier"}
  IN UNION {LET c == items[i].children.selectStatement[1].children
                v == out.fields[i].subquery
            IN {<<c, v, out.fields[i]>>} \cup ProjectionPairs(c, v) : i \in subs}

\* the statements built for the input: the top-level one and the subqueries
\* of the projection lists
BuiltPairs ==
  {<<InputCtx, query, Empty>>} \cup ProjectionPairs(InputCtx, query)

FromImage(ctx) == ctx.fromClause[1].children.Identifier[1].image

-----------------------------------------------------------------------------
(* C1 *)

\* C1 as stated: in every built statement with sObject alias A, no element
\* of fields that still has relationships has A as its first relationship,
\* also when the path repeats the alias segment (A.A.Name).
C1_AliasNeverFirst ==
  Returned =>
    \A pr \in BuiltPairs :
      LET s == pr[2]
      IN Has(s, "sObjectAlias") =>
           \A i \in DOMAIN s.fields :
             Has(s.fields[i], "relationships") =>
               s.fields[i].relationships[1] # s.sObjectAlias

\* C1 amended: exactly one leading alias segment is removed, so an element
\* of fields that still has relationships begins with A only when the
\* projected path had A as both its first and its second segment; the
\* removed segment is stored as objectPrefix.
C1_AliasStrippedOnce ==
  Returned =>
    \A pr \in BuiltPairs :
      LET s == pr[2]
      IN Has(s, "sObjectAlias") =>
           \A i \in DOMAIN s.fields :
             LET f == s.fields[i]
             IN Has(f, "rawValue") =>
                  LET segs == split(f.rawValue, ".")
                  IN /\ (Has(f, "relationships") /\ f.relationships[1] = s.sObjectAlias)
                          => (segs[1] = s.sObjectAlias /\ segs[2] = s.sObjectAlias)
                     /\ segs[1] = s.sObjectAlias
                          => (Has(f, "objectPrefix") /\ f.objectPrefix = s.sObjectAlias)

\* a statement with alias a projecting a.a.Name was built: one a is removed
C1_Witness ==
  /\ Returned
  /\ \E pr \in BuiltPairs :
       /\ Has(pr[2], "sObjectAlias")
       /\ \E i \in DOMAIN pr[2].fields :
            /\ Has(pr[2].fields[i], "relationships")
            /\ Has(pr[2].fields[i], "objectPrefix")
            /\ pr[2].fields[i].relationships[1] = pr[2].sObjectAlias

-----------------------------------------------------------------------------
(* Conditions: the input's condition contexts and the built conditions     *)

InputWhereConds ==
  IF Has(InputCtx, "whereClause")
  THEN InputCtx.whereClause[1].children.conditionExpression ELSE <<>>

InputHavingConds ==
  IF Has(InputCtx, "groupByClause") /\ Has(InputCtx.groupByClause[1].children, "havingClause")
  THEN InputCtx.groupByClause[1].children.havingClause[1].children.conditionExpression
  ELSE <<>>

BuiltWhere == IF Has(query, "where") THEN ChainLefts(query.where) ELSE <<>>

BuiltHaving ==
  IF Has(query, "groupBy") /\ Has(query.groupBy, "having")
  THEN ChainLefts(query.groupBy.having) ELSE <<>>

\* the elements of the array literal of a right-hand side
ElemsOf(rhs) == rhs.arrayExpression[1].children.value

IsDateN(item) == ~isToken(item) /\ item.name = "dateNLiteral"

\* the LiteralType tag of one array element, classified on its own
ElemTag(item) ==
  IF isToken(item) THEN getLiteralTypeFromTokenType(item.tokenType)
  ELSE getLiteralTypeFromTokenType(item.children.dateNLiteral[1].tokenType)

\* the integer N of a date-N literal node
ElemN(node) == NumberOf(node.children.variable[1].image)

-----------------------------------------------------------------------------
(* C2 *)

\* C2: for an array right-hand side, literalType is the scalar tag whenever
\* all per-element tags are equal (also for different tokens, TRUE and
\* FALSE), and the sequence of per-element tags only when two tags differ.
C2_ScalarWhenTagsAgree ==
  Returned =>
    \A i \in DOMAIN InputWhereConds :
      LET rhs == rhsOf(InputWhereConds[i])
      IN atomicBranch(rhs) = "arrayExpression" =>
           LET elems == ElemsOf(rhs)
               tags == [j \in DOMAIN elems |-> ElemTag(elems[j])]
           IN BuiltWhere[i].literalType =
                IF \A j \in DOMAIN tags : tags[j] = tags[1]
                THEN Scalar(tags[1]) ELSE Arr(tags)

-----------------------------------------------------------------------------
(* C3 *)

\* C3: a date-N right-hand side NAME:N gives value "NAME:N", literalType
\* DATE_N_LITERAL and dateLiteralVariable N, for every unsigned integer N;
\* an array holding a date-N literal gives a dateLiteralVariable sequence
\* of the array's length with N at the date-N positions and null elsewhere.
C3_DateNVariableKept ==
  Returned =>
    \A i \in DOMAIN InputWhereConds :
      LET rhs == rhsOf(InputWhereConds[i])
          c == BuiltWhere[i]
      IN /\ atomicBranch(rhs) = "dateNLiteral" =>
              LET n == rhs.dateNLiteral[1]
              IN /\ c.value = n.children.dateNLiteral[1].image \o <<":">>
                                \o n.children.variable[1].image
                 /\ c.literalType = Scalar("DATE_N_LITERAL")
                 /\ Has(c, "dateLiteralVariable")
                 /\ c.dateLiteralVariable = Scalar(ElemN(n))
         /\ (/\ atomicBranch(rhs) = "arrayExpression"
             /\ \E j \in DOMAIN ElemsOf(rhs) : IsDateN(ElemsOf(rhs)[j])) =>
              LET elems == ElemsOf(rhs)
              IN /\ Has(c, "dateLiteralVariable")
                 /\ c.dateLiteralVariable =
                      Arr([j \in DOMAIN elems |->
                             IF IsDateN(elems[j]) THEN JsNum(ElemN(elems[j]))
                             ELSE JsNull])

-----------------------------------------------------------------------------
(* C4 *)

\* C4: the value built for a parenthesised select statement of a projection
\* list has no usingScope attribute, whatever clauses its parse tree holds.
C4_SubqueryHasNoUsingScope ==
  Returned =>
    \A pr \in ProjectionPairs(InputCtx, query) : ~Has(pr[2], "usingScope")

-----------------------------------------------------------------------------
(* C5 *)

\* a built statement without the attributes that bind its FROM target
Core(v) == [k \in DOMAIN v \ {"sObject", "relationshipName", "sObjectPrefix"} |-> v[k]]

-----------------------------------------------------------------------------
(* C6 *)

\* C6 as stated: a condition whose right-hand side is a parenthesised
\* select statement has valueQuery and neither value nor literalType, and
\* the valueQuery is a Subquery value: relationshipName and no sObject.
C6_ValueQueryIsSubquery ==
  Returned =>
    \A i \in DOMAIN InputWhereConds :
      atomicBranch(rhsOf(InputWhereConds[i])) = "whereClauseSubqueryIdentifier" =>
        LET c == BuiltWhere[i]
        IN /\ Has(c, "valueQuery") /\ ~Has(c, "value") /\ ~Has(c, "literalType")
           /\ Has(c.valueQuery, "relationshipName") /\ ~Has(c.valueQuery, "sObject")

\* C6 amended: such a condition has valueQuery and neither value nor
\* literalType, and the valueQuery is a Query value: its FROM target is held
\* in sObject and it has no relationshipName attribute.
C6_ValueQueryIsQuery ==
  Returned =>
    \A i \in DOMAIN InputWhereConds :
      LET rhs == rhsOf(InputWhereConds[i])
      IN atomicBranch(rhs) = "whereClauseSubqueryIdentifier" =>
           LET c == BuiltWhere[i]
               inner == rhs.whereClauseSubqueryIdentifier[1].children.selectStatement[1].children
           IN /\ Has(c, "valueQuery") /\ ~Has(c, "value") /\ ~Has(c, "literalType")
              /\ Has(c.valueQuery, "sObject") /\ ~Has(c.valueQuery, "relationshipName")
              /\ c.valueQuery.sObject = Last(split(FromImage(inner), "."))

\* a condition with a select statement on its right-hand side was built
C6_Witness ==
  /\ Returned
  /\ \E i \in DOMAIN BuiltWhere : Has(BuiltWhere[i], "valueQuery")

-----------------------------------------------------------------------------
(* C7 *)

\* C7: for a FROM identifier of k >= 2 dot-separated segments the built
\* value names the last segment as its target (sObject of a Query,
\* relationshipName of a Subquery) and has sObjectPrefix equal to the k-1
\* preceding segments, for a Query and for a Subquery alike; an undotted
\* FROM identifier gives no sObjectPrefix.
C7_PrefixOfDottedFrom ==
  Returned =>
    \A pr \in BuiltPairs :
      LET segs == split(FromImage(pr[1]), ".")
          k == Len(segs)
          v == pr[2]
          target == IF Has(v, "sObject") THEN v.sObject ELSE v.relationshipName
      IN /\ target = segs[k]
         /\ IF k >= 2
            THEN Has(v, "sObjectPrefix") /\ v.sObjectPrefix = SubSeq(segs, 1, k - 1)
            ELSE ~Has(v, "sObjectPrefix")

-----------------------------------------------------------------------------
(* C8 *)

-----------------------------------------------------------------------------
(* C9 *)

Count(c, key) == IF Has(c, key) THEN c[key] ELSE 0

RECURSIVE SumCount(_, _)
SumCount(conds, key) ==
  IF Len(conds) = 0 THEN 0
  ELSE Count(Head(conds), key) + SumCount(Tail(conds), key)

\* the grouping parentheses of one condition context of the input
InputParens(cond, key) ==
  LET e == cond.children.expression[1].children
  IN IF Has(e, key) THEN Len(e[key]) ELSE 0

ChainBalanced(inConds, built) ==
  /\ Len(built) = Len(inConds)
  /\ \A i \in DOMAIN inConds :
        /\ Count(built[i], "openParen") = InputParens(inConds[i], "L_PAREN")
        /\ Count(built[i], "closeParen") = InputParens(inConds[i], "R_PAREN")
  /\ SumCount(built, "openParen") = SumCount(built, "closeParen")

\* C9: in every WhereClause and HavingClause built from a well-formed input
\* the openParen counts of the chain sum to the same number as its
\* closeParen counts; each count is the number of grouping parentheses
\* opened / closed at that condition (none recorded counts 0), and the
\* parentheses of array literals, subqueries and function calls are not
\* counted.
C9_ParenthesisBalance ==
  Returned =>
    /\ ChainBalanced(InputWhereConds, BuiltWhere)
    /\ ChainBalanced(InputHavingConds, BuiltHaving)

\* a HAVING chain of two conditions was built whose first condition (with a
\* function call on its left and an array literal on its right) opens a
\* group that the second closes
C9_Witness ==
  /\ Returned
  /\ Len(BuiltHaving) >= 2
  /\ Count(BuiltHaving[1], "openParen") >= 1
  /\ ~Has(BuiltHaving[1], "closeParen")
  /\ Has(BuiltHaving[1], "fn")
  /\ Count(BuiltHaving[2], "closeParen") >= 1

-----------------------------------------------------------------------------
(* C10 *)

IsLiteralType(lt) ==
  IF Has(lt, "scalar") THEN lt.scalar \in LiteralTypes
  ELSE /\ Has(lt, "seq")
       /\ \A j \in DOMAIN lt.seq : lt.seq[j] \in LiteralTypes

Classified(inConds, built) ==
  \A i \in DOMAIN inConds :
    atomicBranch(rhsOf(inConds[i])) # "whereClauseSubqueryIdentifier" =>
      /\ Has(built[i], "literalType")
      /\ IsLiteralType(built[i].literalType)
      /\ atomicBranch(rhsOf(inConds[i])) = "arrayExpression" =>
           (Has(built[i].literalType, "seq") =>
              Len(built[i].literalType.seq) = Len(ElemsOf(rhsOf(inConds[i]))))

\* C10: every built condition whose right-hand side is an atomic literal or
\* an array of literals has a literalType that is one of the twelve literal
\* tags, or a sequence of them; it is never undefined.
C10_LiteralTypeDefined ==
  Returned =>
    /\ Classified(InputWhereConds, BuiltWhere)
    /\ Classified(InputHavingConds, BuiltHaving)

\* a condition on an array literal with two different tags was built
C10_Witness ==
  /\ Returned
  /\ \E i \in DOMAIN BuiltWhere :
       /\ Has(BuiltWhere[i], "literalType")
       /\ Has(BuiltWhere[i].literalType, "seq")
       /\ \E j \in DOMAIN BuiltWhere[i].literalType.seq :
            BuiltWhere[i].literalType.seq[j] # BuiltWhere[i].literalType.seq[1]

-----------------------------------------------------------------------------
(* C11 *)

\* functionName, parameters and rawValue are present
HasCallShape(fn) == {"functionName", "parameters", "rawValue"} \subseteq DOMAIN fn

RECURSIVE BareCall(_, _, _)
\* the value fn built for the function call of rule `rule` and context ctx,
\* and every function nested in its parameters, has neither type nor
\* isAggregateFn
BareCall(rule, ctx, fn) ==
  /\ HasCallShape(fn)
  /\ ~Has(fn, "type")
  /\ ~Has(fn, "isAggregateFn")
  /\ IF rule = "geolocationFunction" THEN Len(fn.parameters) = 2
     ELSE IF rule = "locationFunction"
     THEN /\ Len(fn.parameters) = 3
          /\ \/ isToken(ctx.location2[1])
             \/ BareCall(ctx.location2[1].name, ctx.location2[1].children,
                         fn.parameters[2])
     ELSE IF Has(ctx, "functionExpression")
             /\ Has(ctx.functionExpression[1].children, "params")
     THEN LET params == ctx.functionExpression[1].children.params
          IN /\ Len(fn.parameters) = Len(params)
             /\ \A i \in DOMAIN params :
                  \/ isToken(params[i])
                  \/ BareCall(params[i].name, params[i].children, fn.parameters[i])
     ELSE fn.parameters = <<>>

\* the function calls of the projection list: <<input node, built field>>
ProjectedCalls ==
  LET items == InputCtx.selectClause[1].children.field
  IN {<<items[i].children.fn[1], query.fields[i]>> :
        i \in {j \in DOMAIN items :
                 ~isToken(items[j]) /\ items[j].name = "selectClauseFunctionIdentifier"}}

InputOrder ==
  IF Has(InputCtx, "orderByClause")
  THEN InputCtx.orderByClause[1].children.orderByExpressionOrFn ELSE <<>>

\* the built ORDER BY criteria as a sequence, whichever shape orderBy has
BuiltOrder ==
  IF ~Has(query, "orderBy") THEN <<>>
  ELSE IF Has(query.orderBy, "seq") THEN query.orderBy.seq ELSE <<query.orderBy>>

\* the function-call contexts outside the projection list:
\* <<rule, context, built value>>
OtherCalls ==
  {<<InputWhereConds[i].children.expression[1].children.lhs[1].name,
     InputWhereConds[i].children.expression[1].children.lhs[1].children,
     BuiltWhere[i].fn>> :
     i \in {j \in DOMAIN InputWhereConds :
              ~isToken(InputWhereConds[j].children.expression[1].children.lhs[1])}}
  \cup
  {<<InputHavingConds[i].children.expression[1].children.lhs[1].name,
     InputHavingConds[i].children.expression[1].children.lhs[1].children,
     BuiltHaving[i].fn>> :
     i \in {j \in DOMAIN InputHavingConds :
              ~isToken(InputHavingConds[j].children.expression[1].children.lhs[1])}}
  \cup
  (IF Has(InputCtx, "groupByClause") /\ Has(InputCtx.groupByClause[1].children, "fn")
   THEN {<<InputCtx.groupByClause[1].children.fn[1].name,
           InputCtx.groupByClause[1].children.fn[1].children,
           query.groupBy.fn>>}
   ELSE {})
  \cup
  {IF InputOrder[i].name = "orderByLocationExpression"
   THEN <<"locationFunction",
          InputOrder[i].children.locationFunction[1].children, BuiltOrder[i].fn>>
   ELSE <<"orderByFunctionExpression", InputOrder[i].children, BuiltOrder[i].fn>> :
     i \in {j \in DOMAIN InputOrder : InputOrder[j].name # "orderByExpression"}}

\* C11: a function call of the projection list is built with type
\* "FieldFunctionExpression" and carries isAggregateFn (= TRUE) exactly when
\* it is COUNT, COUNT_DISTINCT, SUM, AVG, MIN, MAX or DISTANCE; a function
\* call built for GROUP BY, ORDER BY or the left-hand side of a WHERE /
\* HAVING condition, and every function nested in its parameters, has
\* neither type nor isAggregateFn; functionName, parameters and rawValue are
\* present in every context.
C11_FunctionShapeByContext ==
  Returned =>
    /\ \A c \in ProjectedCalls :
         /\ HasCallShape(c[2])
         /\ Has(c[2], "type") /\ c[2].type = "FieldFunctionExpression"
         /\ Has(c[2], "isAggregateFn") <=>
              c[2].functionName \in AggregateNames \cup {"DISTANCE"}
         /\ Has(c[2], "isAggregateFn") => c[2].isAggregateFn = TRUE
    /\ \A c \in OtherCalls : BareCall(c[1], c[2], c[3])

\* an aggregate call was projected and a call with a nested aggregate call
\* was built for the left-hand side of a HAVING condition
C11_Witness ==
  /\ Returned
  /\ \E c \in ProjectedCalls : Has(c[2], "isAggregateFn") /\ c[2].functionName = "DISTANCE"
  /\ Len(BuiltHaving) = 1
  /\ Has(BuiltHaving[1], "fn")
  /\ BuiltHaving[1].fn.functionName = "FORMAT"
  /\ BuiltHaving[1].fn.rawValue = <<"FORMAT", "(", "MAX", "(", "Amount", ")", ")">>

-----------------------------------------------------------------------------
(* C12 *)

\* the latest call was parseQuery of SoqlParser.ts
FacadeCalled == last.fn = "SoqlParser.parseQuery"

\* option key of the object after the call is the boolean given, or the
\* default when none was given
EffectiveOption(key, default) ==
  config[key] = IF key \in DOMAIN last.before /\ last.before[key] \in {JsBool(TRUE), JsBool(FALSE)}
                THEN last.before[key] ELSE JsBool(default)

-----------------------------------------------------------------------------
(* C13 *)

\* the outcome of the call fn(text, options) made alone, on the options
\* object as the caller created it
Alone(fn, text, options) ==
  IF fn = "parseQuery" THEN parseQuery(text)
  ELSE IF fn = "isQueryValid" THEN isQueryValid(text)
  ELSE SoqlParser_parseQuery(text, options, listenerRaises).outcome

-----------------------------------------------------------------------------
(* C14 *)

RECURSIVE ChainNodes(_)
\* the nodes of a built chain, following right
ChainNodes(node) ==
  <<node>> \o (IF Has(node, "right") THEN ChainNodes(node.right) ELSE <<>>)

\* the left-hand side of input condition c, as the builder records it
LhsOf(c) == c.children.expression[1].children.lhs[1]

\* the chain built from the n conditions inConds has n nodes in source
\* order, each but the last carrying right and the connective written
\* before the next condition, the last carrying neither
LinearChain(inConds, root) ==
  LET nodes == ChainNodes(root)
      n == Len(inConds)
  IN /\ Len(nodes) = n
     /\ \A i \in 1..n :
          /\ Has(nodes[i], "left")
          /\ isToken(LhsOf(inConds[i])) => nodes[i].left.field = LhsOf(inConds[i]).image
          /\ ~isToken(LhsOf(inConds[i])) => Has(nodes[i].left, "fn")
          /\ i < n => /\ Has(nodes[i], "right")
                      /\ nodes[i].right = nodes[i + 1]
                      /\ Has(nodes[i], "operator")
                      /\ nodes[i].operator \in {"AND", "OR"}
                      /\ nodes[i].operator =
                           inConds[i + 1].children.logicalOperator[1].tokenType
          /\ i = n => ~Has(nodes[i], "right") /\ ~Has(nodes[i], "operator")

\* C14: a WHERE or HAVING clause with n >= 1 condition expressions is built
\* as a linear chain of exactly n nodes in source order, node i's right being
\* node i+1; a node with a right carries as operator the connective written
\* between it and the next condition; the last node has neither right nor
\* operator.
C14_ChainAssembly ==
  Returned =>
    /\ Has(query, "where") => LinearChain(InputWhereConds, query.where)
    /\ Has(query, "groupBy") /\ Has(query.groupBy, "having") =>
         LinearChain(InputHavingConds, query.groupBy.having)

\* a WHERE chain of three conditions joined by OR and then AND was built
C14_Witness ==
  /\ Returned
  /\ Has(query, "where")
  /\ Len(ChainNodes(query.where)) = 3
  /\ query.where.operator = "OR"
  /\ query.where.right.operator = "AND"
  /\ query.where.right.right.left.field = <<"f", "3">>

-----------------------------------------------------------------------------
(* C15 *)

\* the built criterion v is the one of input node: exactly one of field and
\* fn, and order / nulls exactly as written
Criterion(node, v) ==
  /\ Has(v, "field") # Has(v, "fn")
  /\ Has(v, "field") <=> node.name = "orderByExpression"
  /\ Has(v, "field") => v.field = node.children.Identifier[1].image
  /\ Has(v, "fn") => HasCallShape(v.fn) /\ ~Has(v.fn, "type")
  /\ Has(v, "order") <=> Has(node.children, "order")
  /\ Has(v, "order") => v.order = node.children.order[1].tokenType
  /\ Has(v, "nulls") <=> Has(node.children, "nulls")
  /\ Has(v, "nulls") => v.nulls = node.children.nulls[1].tokenType
  /\ DOMAIN v \subseteq {"field", "fn", "order", "nulls"}

\* C15: an ORDER BY clause with one criterion is built as a single
\* OrderByClause value, one with k >= 2 criteria as a sequence of exactly k
\* values in source order; every value has exactly one of field and fn, and
\* carries order / nulls only when ASC | DESC / NULLS FIRST | LAST was
\* written for its criterion.
C15_OrderByCollapsing ==
  Returned /\ Has(InputCtx, "orderByClause") =>
    /\ Has(query, "orderBy")
    /\ Len(InputOrder) = 1 =>
         /\ ~Has(query.orderBy, "seq")
         /\ Criterion(InputOrder[1], query.orderBy)
    /\ Len(InputOrder) >= 2 =>
         /\ Has(query.orderBy, "seq")
         /\ Len(query.orderBy.seq) = Len(InputOrder)
         /\ \A i \in DOMAIN InputOrder : Criterion(InputOrder[i], query.orderBy.seq[i])

\* ORDER BY Name DESC, COUNT(Id) NULLS LAST was built as a sequence of two
C15_Witness ==
  /\ Returned
  /\ Has(query, "orderBy")
  /\ Has(query.orderBy, "seq")
  /\ Len(query.orderBy.seq) = 2
  /\ query.orderBy.seq[1] = [field |-> <<"Name">>, order |-> "DESC"]
  /\ Has(query.orderBy.seq[2], "fn")
  /\ ~Has(query.orderBy.seq[2], "order")
  /\ query.orderBy.seq[2].nulls = "LAST"

=============================================================================
